---- MODULE Spec2Model ----
(***************************************************************************)
(* BacktestEngine.run_backtest (src/src/backtest/backtest_engine.py) as a  *)
(* state machine: one step per iteration of the row loop, one step for the *)
(* return.  The candle stream is the input; each row is drawn when the     *)
(* loop reaches it.  Spec walks every stream of at most MaxCandles rows    *)
(* with strictly increasing timestamps (the documented input contract);    *)
(* SpecUnordered walks every stream of at most MaxUnordered rows in any    *)
(* order, since run_backtest itself accepts any frame.  SpecSignals and    *)
(* SpecMetrics apply SignalGenerator.generate_signals and                  *)
(* PerformanceAnalyzer.calculate_metrics, which are pure functions, to     *)
(* every input of their bounded domains.  SpecRates runs engines built     *)
(* with other commission rates, SpecRaw gives run_backtest rows whose      *)
(* moving average is undefined, and SpecPipeline is the pipeline of        *)
(* run_backtest.py: generate_signals, dropna, then the engine on the frame *)
(* that is left, with the index labels it kept.                            *)
(*                                                                         *)
(* Numbers.  Prices are whole points.  Balances and profits are kept in    *)
(* units of 1/CommissionDen point, so that profit - |profit| * commission  *)
(* is exact: the model is the engine's arithmetic over the reals, without  *)
(* binary floating-point rounding.                                         *)
(***************************************************************************)
EXTENDS Integers, Sequences, FiniteSets, TLC

(* ------------------------------ bounds -------------------------------- *)

MaxCandles == 4
MaxUnordered == 3
MaxSignalRows == 3
MaxTrades == 3
MaxHistory == 3
MaxRatedRows == 3
MaxRawRows == 3
MaxPipelineRows == 4
MaxWarmUp == 2

(* ------------------------- program constants -------------------------- *)

initial_balance == 100000
CommissionNum == 1
CommissionDen == 1000
stop_loss_points == 2
position_size == 1
market_close_time == 885
entry_cutoff_time == 870
MinutesPerDay == 1440
BasePrice == 1350
trading_start == 555
trading_end == 870

(* ------------------------------ input --------------------------------- *)

\* An undefined indicator value (numpy's nan, as the rolling window leaves at
\* the head of the series and shift(1) leaves at index 0).  Every comparison
\* with it is false.
NaN == -1

FloatGe(a, b) == a # NaN /\ b # NaN /\ a >= b

\* Times of day of the 15-minute candles, in minutes after midnight:
\* 09:15, 09:30, 09:45 (session open), 14:30 and 14:45 (session end).
CandleTimes == {555, 570, 585, entry_cutoff_time, market_close_time}

\* Two consecutive trading days.
CandleDays == {1, 2}

\* The second day's candles: 09:15, 09:30 and 14:45.
NextDayTimes == {555, 570, market_close_time}

MakeDatetime(day, minutes) == day * MinutesPerDay + minutes

Datetimes == {MakeDatetime(1, t) : t \in CandleTimes}
             \cup {MakeDatetime(2, t) : t \in NextDayTimes}

\* Closing prices around the base price, and moving averages at both ends.
Closes == {BasePrice, BasePrice + 1, BasePrice + 2, BasePrice + 3}

Smas == {BasePrice, BasePrice + 3}

\* One row of signals_df, as far as run_backtest reads it.
Candles == [datetime : Datetimes, close : Closes, sma : Smas, buy_signal : {0, 1}]

\* row['datetime'].date() and row['datetime'].time()
DateOf(dt) == dt \div MinutesPerDay

TimeOf(dt) == dt % MinutesPerDay

NoRow == [datetime |-> 0, close |-> 0, sma |-> 0, buy_signal |-> 0]

NoResult == [trades |-> <<>>, portfolio_history |-> <<>>, final_balance |-> 0,
             backtest_df |-> <<>>]

NoArgs == [trades_df |-> <<>>, portfolio_history |-> <<>>, initial_balance |-> 0]

NoMetrics == [total_trades |-> -1]

(* ------------------------------ state --------------------------------- *)

VARIABLES
    commission,         \* self.commission, in units of 1/CommissionDen
    bt_df,              \* run_backtest's annotated frame df: its input rows reached so far, and the rows df.at added
    pc,                 \* "loop" in the row loop, "return" after the return, "raise" after an exception
    i,                  \* rows processed so far (the loop index of the next row)
    row,                \* the row processed last, df.iloc[i-1]
    chronological,      \* the rows processed so far have strictly increasing timestamps
    current_position,
    entry_price,
    entry_time,
    entry_sma,
    trade_id,
    daily_positions,
    current_date,
    current_balance,
    trades_list,
    portfolio_history,
    backtest_results,
    sg_pc,              \* generate_signals: "idle", "call" or "return"
    sg_df,              \* its argument df
    sg_result,          \* its result_df
    pa_pc,              \* calculate_metrics: "idle", "call" or "return"
    pa_args,            \* its arguments trades_df, portfolio_history, initial_balance
    metrics,            \* its result
    pl_pc,              \* the pipeline of run_backtest.py: "idle", "signals" or "backtest"
    df_signals          \* its frame df_signals after dropna

engineVars == <<commission, bt_df, pc, i, row, chronological, current_position, entry_price,
                entry_time, entry_sma, trade_id, daily_positions, current_date,
                current_balance, trades_list, portfolio_history, backtest_results>>

signalVars == <<sg_pc, sg_df, sg_result>>

metricVars == <<pa_pc, pa_args, metrics>>

pipelineVars == <<pl_pc, df_signals>>

vars == <<engineVars, signalVars, metricVars, pipelineVars>>

(* ------------------------- the loop's decisions ----------------------- *)

\* Mutant: the counter is never reset.
DailyNeverReset(cur_date, daily, row_date) == daily

\* Reset daily position count.
DailyAfterReset(cur_date, daily, row_date) ==
    IF cur_date = 0 \/ row_date # cur_date THEN 0 ELSE daily

\* Mutant: the entry cutoff is tested with <= in place of <.
EntryConditionAtCutoff(buy_signal, daily, row_time) ==
    buy_signal = 1 /\ daily < 1 /\ row_time <= entry_cutoff_time

\* Mutant: the daily cap is not tested.
EntryConditionNoCap(buy_signal, daily, row_time) ==
    buy_signal = 1 /\ row_time < entry_cutoff_time

\* Mutant: the time of day is not tested.
EntryConditionAnyTime(buy_signal, daily, row_time) ==
    buy_signal = 1 /\ daily < 1

\* The entry test of a flat engine.
EntryCondition(buy_signal, daily, row_time) ==
    buy_signal = 1 /\ daily < 1 /\ row_time < entry_cutoff_time

\* Mutant: "if" in place of "elif", so the exit logic also runs on the entry row.
HoldingIf(position_before, position_after_entry) ==
    position_after_entry # 0

\* "elif current_position != 0": the exit logic runs only for a position that
\* was open when the row began, never on the row that opened it.
Holding(position_before, position_after_entry) ==
    position_before # 0

\* Mutant: the take-profit target follows the current row's moving average.
TakeProfitTargetOfRow(e_sma, row_sma) == row_sma

\* The take-profit test reads entry_sma, not row['sma'].
TakeProfitTarget(e_sma, row_sma) == e_sma

\* Mutant: the stop-loss is tested before the take-profit.
ExitReasonStopFirst(close, e_price, e_sma, row_time) ==
    IF close - e_price <= -stop_loss_points THEN "stop_loss"
    ELSE IF FloatGe(close, e_sma) THEN "take_profit"
    ELSE IF row_time >= market_close_time THEN "market_close"
    ELSE ""

\* Mutant: the session close is tested with > in place of >=.
ExitReasonLateClose(close, e_price, e_sma, row_time) ==
    IF FloatGe(close, e_sma) THEN "take_profit"
    ELSE IF close - e_price <= -stop_loss_points THEN "stop_loss"
    ELSE IF row_time > market_close_time THEN "market_close"
    ELSE ""

\* Mutant: the stop-loss is tested with < in place of <=.
ExitReasonStrictStop(close, e_price, e_sma, row_time) ==
    IF FloatGe(close, e_sma) THEN "take_profit"
    ELSE IF close - e_price < -stop_loss_points THEN "stop_loss"
    ELSE IF row_time >= market_close_time THEN "market_close"
    ELSE ""

\* The three exit conditions, first match wins; "" is no exit.
ExitReason(close, e_price, e_sma, row_time) ==
    IF FloatGe(close, e_sma) THEN "take_profit"
    ELSE IF close - e_price <= -stop_loss_points THEN "stop_loss"
    ELSE IF row_time >= market_close_time THEN "market_close"
    ELSE ""

\* Mutant: a stop-loss is filled at the candle's close.
ExitPriceAtClose(reason, close, e_price) == close

ExitPrice(reason, close, e_price) ==
    IF reason = "stop_loss" THEN e_price - stop_loss_points ELSE close

Abs(x) == IF x < 0 THEN -x ELSE x

\* Mutant: the commission is added to the profit.
NetProfitPlusCommission(profit) ==
    profit * CommissionDen + Abs(profit) * commission

\* profit - abs(profit) * self.commission, in units of 1/CommissionDen.
NetProfit(profit) ==
    profit * CommissionDen - Abs(profit) * commission

\* Mutant: the position is not cleared after the trade is recorded.
PositionKept(position) == position

\* "current_position = 0" at the end of the exit block.
PositionAfterExit(position) == 0

\* Mutant: the identifier is not incremented.
TradeIdKept(id) == id

\* "trade_id += 1" in the entry block.
TradeIdAfterEntry(id) == id + 1

\* Mutant: the balance is recorded only when it changed.
HistoryOnChange(history, balance) ==
    IF balance # history[Len(history)] THEN Append(history, balance) ELSE history

\* portfolio_history.append(current_balance), once per row.
HistoryAfterRow(history, balance) == Append(history, balance)

(* ------------------------- the annotated frame ------------------------ *)

\* The columns run_backtest adds to its copy of the input, as they are set
\* before the loop, for the input row of the given index label.
DefaultAnnotation(label) ==
    [label           |-> label,
     position        |-> 0,
     entry_price     |-> NaN,
     exit_price      |-> NaN,
     profit          |-> 0,
     current_balance |-> initial_balance * CommissionDen]

\* The row pandas adds for a label the index does not have: every column is
\* undefined until it is set.
EnlargedRow(label) ==
    [label           |-> label,
     position        |-> NaN,
     entry_price     |-> NaN,
     exit_price      |-> NaN,
     profit          |-> NaN,
     current_balance |-> NaN]

HasLabel(rows, label) == \E p \in 1..Len(rows) : rows[p].label = label

PositionOfLabel(rows, label) == CHOOSE p \in 1..Len(rows) : rows[p].label = label

\* The writes df.at[label, col] = value of one iteration, written being the
\* columns set and their values.  The label is looked up in the index; a
\* label the index does not have enlarges the frame by a new last row, which
\* the later writes of the iteration find.
SetAt(frame, label, written) ==
    IF HasLabel(frame.rows, label)
    THEN [frame EXCEPT !.rows[PositionOfLabel(frame.rows, label)] = written @@ @]
    ELSE [frame EXCEPT !.extra = Append(@, written @@ EnlargedRow(label))]

(* ------------------------------ actions ------------------------------- *)

\* The state of run_backtest before the first row.
RunInit ==
    /\ bt_df = [rows |-> <<>>, extra |-> <<>>]
    /\ pc = "loop"
    /\ i = 0
    /\ row = NoRow
    /\ chronological = TRUE
    /\ current_position = 0
    /\ entry_price = 0
    /\ entry_time = 0
    /\ entry_sma = 0
    /\ trade_id = 0
    /\ daily_positions = 0
    /\ current_date = 0
    /\ current_balance = initial_balance * CommissionDen
    /\ trades_list = <<>>
    /\ portfolio_history = <<initial_balance * CommissionDen>>
    /\ backtest_results = NoResult

\* An engine built with the default commission.
EngineInit == commission = CommissionNum /\ RunInit

SignalsIdle == sg_pc = "idle" /\ sg_df = <<>> /\ sg_result = <<>>

MetricsIdle == pa_pc = "idle" /\ pa_args = NoArgs /\ metrics = NoMetrics

PipelineIdle == pl_pc = "idle" /\ df_signals = <<>>

Init == EngineInit /\ SignalsIdle /\ MetricsIdle /\ PipelineIdle

\* One iteration of "for i in range(len(df))" on the row r = df.iloc[i], whose
\* index label is label.
LoopBodyAt(r, label) ==
    LET row_date == DateOf(r.datetime)
        row_time == TimeOf(r.datetime)
        daily    == DailyAfterReset(current_date, daily_positions, row_date)
        enter    == current_position = 0
                    /\ EntryCondition(r.buy_signal, daily, row_time)
        position_after_entry == IF enter THEN 1 ELSE current_position
        e_price  == IF enter THEN r.close ELSE entry_price
        e_time   == IF enter THEN r.datetime ELSE entry_time
        e_sma    == IF enter THEN r.sma ELSE entry_sma
        holding  == Holding(current_position, position_after_entry)
        reason   == IF holding
                    THEN ExitReason(r.close, e_price,
                                    TakeProfitTarget(e_sma, r.sma), row_time)
                    ELSE ""
        exit_signal == reason # ""
        exit_price  == ExitPrice(reason, r.close, e_price)
        profit      == (exit_price - e_price) * position_size
        net_profit  == NetProfit(profit)
        balance     == IF exit_signal THEN current_balance + net_profit
                       ELSE current_balance
        new_id      == IF enter THEN TradeIdAfterEntry(trade_id) ELSE trade_id
        trade       == [trade_id     |-> new_id,
                        type         |-> "buy",
                        entry_time   |-> e_time,
                        entry_price  |-> e_price,
                        exit_time    |-> r.datetime,
                        exit_price   |-> exit_price,
                        exit_reason  |-> reason,
                        position_size |-> position_size,
                        profit       |-> net_profit,
                        sma_at_entry |-> e_sma]
        on_entry    == IF enter
                       THEN [position |-> 1, entry_price |-> e_price]
                       ELSE <<>>
        on_holding  == IF holding
                       THEN [position |-> current_position]
                       ELSE <<>>
        on_exit     == IF exit_signal
                       THEN [exit_price |-> exit_price, profit |-> net_profit]
                       ELSE <<>>
        written     == [current_balance |-> balance] @@ on_exit @@ on_holding
                       @@ on_entry
    IN  /\ row' = r
        /\ bt_df' = SetAt([bt_df EXCEPT !.rows = Append(@, DefaultAnnotation(label))],
                          i, written)
        /\ i' = i + 1
        /\ chronological' = (chronological /\ (i = 0 \/ r.datetime > row.datetime))
        /\ current_date' = row_date
        /\ daily_positions' = IF enter THEN daily + 1 ELSE daily
        /\ trade_id' = new_id
        /\ entry_price' = e_price
        /\ entry_time' = e_time
        /\ entry_sma' = e_sma
        /\ current_position' = IF exit_signal
                               THEN PositionAfterExit(position_after_entry)
                               ELSE position_after_entry
        /\ trades_list' = IF exit_signal THEN Append(trades_list, trade)
                          ELSE trades_list
        /\ current_balance' = balance
        /\ portfolio_history' = HistoryAfterRow(portfolio_history, balance)

\* A frame built without an index has the labels 0, 1, 2, ...
LoopBody(r) == LoopBodyAt(r, i)

\* The next row of a stream whose timestamps are strictly increasing.
ProcessRow ==
    /\ pc = "loop"
    /\ i < MaxCandles
    /\ \E r \in Candles : (i = 0 \/ r.datetime > row.datetime) /\ LoopBody(r)
    /\ UNCHANGED <<commission, pc, backtest_results, signalVars, metricVars,
                   pipelineVars>>

\* The next row of an arbitrary stream: run_backtest checks no order.
ProcessAnyRow ==
    /\ pc = "loop"
    /\ i < MaxUnordered
    /\ \E r \in Candles : LoopBody(r)
    /\ UNCHANGED <<commission, pc, backtest_results, signalVars, metricVars,
                   pipelineVars>>

\* The stream has no further row: build backtest_results and return.
Return ==
    /\ pc = "loop"
    /\ pc' = "return"
    /\ backtest_results' = [trades |-> trades_list,
                            portfolio_history |-> portfolio_history,
                            final_balance |-> current_balance,
                            backtest_df |-> bt_df.rows \o bt_df.extra]
    /\ UNCHANGED <<commission, bt_df, i, row, chronological, current_position, entry_price,
                   entry_time, entry_sma, trade_id, daily_positions,
                   current_date, current_balance, trades_list,
                   portfolio_history, signalVars, metricVars, pipelineVars>>

Next == ProcessRow \/ Return

Spec == Init /\ [][Next]_vars

NextUnordered == ProcessAnyRow \/ Return

SpecUnordered == Init /\ [][NextUnordered]_vars

(* ----------------- engines built with another commission -------------- *)

\* Commission rates in units of 1/CommissionDen: none, the default, a half,
\* and the largest rate below 1.
CommissionRates == {0, CommissionNum, CommissionDen \div 2, CommissionDen - 1}

\* BacktestEngine(commission=rate), before the first row.
InitRates ==
    /\ commission \in CommissionRates
    /\ RunInit
    /\ SignalsIdle
    /\ MetricsIdle
    /\ PipelineIdle

\* The next row of a chronological stream, for an engine of any rate.
ProcessRatedRow ==
    /\ pc = "loop"
    /\ i < MaxRatedRows
    /\ \E r \in Candles : (i = 0 \/ r.datetime > row.datetime) /\ LoopBody(r)
    /\ UNCHANGED <<commission, pc, backtest_results, signalVars, metricVars,
                   pipelineVars>>

NextRates == ProcessRatedRow \/ Return

SpecRates == InitRates /\ [][NextRates]_vars

(* --------------- streams with undefined moving averages --------------- *)

\* Rows as run_backtest accepts them: the moving average may be undefined.
RawCandles ==
    Candles \cup [datetime : Datetimes, close : Closes, sma : {NaN}, buy_signal : {0, 1}]

\* The next row of a chronological stream given to run_backtest directly,
\* without the pipeline's dropna.
ProcessRawRow ==
    /\ pc = "loop"
    /\ i < MaxRawRows
    /\ \E r \in RawCandles : (i = 0 \/ r.datetime > row.datetime) /\ LoopBody(r)
    /\ UNCHANGED <<commission, pc, backtest_results, signalVars, metricVars,
                   pipelineVars>>

NextRaw == ProcessRawRow \/ Return

SpecRaw == Init /\ [][NextRaw]_vars


(* ------------------------ SignalGenerator ----------------------------- *)

\* Mutant: a previous close equal to its band counts as above it.
FloatGtOrEqual(a, b) == a # NaN /\ b # NaN /\ a >= b

FloatGt(a, b) == a # NaN /\ b # NaN /\ a > b

\* Mutant: the band is crossed only strictly.
FloatLt(a, b) == a # NaN /\ b # NaN /\ a < b

FloatLe(a, b) == a # NaN /\ b # NaN /\ a <= b

\* Times of day of the frames given to generate_signals: 09:00, before the
\* window, its two ends 09:15 and 14:30, and 14:45, after it.
SignalTimes == {540, trading_start, trading_end, market_close_time}

LowerBands == {NaN, BasePrice, BasePrice + 1}

SignalRows == [datetime : {MakeDatetime(1, t) : t \in SignalTimes},
               close : {BasePrice, BasePrice + 1},
               lower_band : LowerBands]

\* Every frame of at most n rows.
RECURSIVE SignalFrames(_)
SignalFrames(n) ==
    IF n = 0 THEN {<<>>}
    ELSE LET shorter == SignalFrames(n - 1)
         IN  shorter \cup {Append(f, r) : f \in {g \in shorter : Len(g) = n - 1},
                                          r \in SignalRows}

\* Series.shift(1) of the column col of the frame df.
Shift(df, col) ==
    [t \in 1..Len(df) |-> IF t = 1 THEN NaN ELSE df[t - 1][col]]

\* Mutant: the end of the trading window is exclusive.
IsWithinTradingHoursExclusive(dt) ==
    TimeOf(dt) >= trading_start /\ TimeOf(dt) < trading_end

IsWithinTradingHours(dt) ==
    TimeOf(dt) >= trading_start /\ TimeOf(dt) <= trading_end

\* astype(int) of a boolean.
AsInt(b) == IF b THEN 1 ELSE 0

\* result_df of generate_signals(df): df's columns, buy_signal and sell_signal.
generate_signals(df) ==
    LET prev_price_above_lower ==
            [t \in 1..Len(df) |->
                FloatGt(Shift(df, "close")[t], Shift(df, "lower_band")[t])]
        curr_price_at_lower ==
            [t \in 1..Len(df) |-> FloatLe(df[t].close, df[t].lower_band)]
    IN  [t \in 1..Len(df) |->
            [buy_signal  |-> AsInt(/\ prev_price_above_lower[t]
                                   /\ curr_price_at_lower[t]
                                   /\ IsWithinTradingHours(df[t].datetime)),
             sell_signal |-> 0] @@ df[t]]

InitSignals ==
    /\ EngineInit
    /\ MetricsIdle
    /\ PipelineIdle
    /\ sg_pc = "call"
    /\ sg_df \in SignalFrames(MaxSignalRows)
    /\ sg_result = <<>>

GenerateSignals ==
    /\ sg_pc = "call"
    /\ sg_pc' = "return"
    /\ sg_result' = generate_signals(sg_df)
    /\ UNCHANGED <<sg_df, engineVars, metricVars, pipelineVars>>

NextSignals == GenerateSignals

SpecSignals == InitSignals /\ [][NextSignals]_vars

(* --------------------- the pipeline of run_backtest.py ---------------- *)

\* Times of day of the pipeline's candles: 09:15, 09:30, 14:30 and 14:45.
PipelineTimes == {trading_start, 570, trading_end, market_close_time}

PipelineCloses == {BasePrice, BasePrice + 1}

\* Rows of the indicator warm-up: the rolling window is not full yet.
WarmUpRows == [datetime   : {MakeDatetime(1, t) : t \in PipelineTimes},
               close      : PipelineCloses,
               sma        : {NaN},
               lower_band : {NaN}]

\* Rows with a full window: the band is below the moving average.
IndicatorRows == [datetime   : {MakeDatetime(1, t) : t \in PipelineTimes},
                  close      : PipelineCloses,
                  sma        : {BasePrice + 1},
                  lower_band : {BasePrice}]

\* The row r can follow the rows f: its timestamp is later, and a warm-up row
\* comes only at the head of the frame.
Follows(f, r) ==
    /\ Len(f) = 0 \/ r.datetime > f[Len(f)].datetime
    /\ r.sma = NaN => /\ Len(f) < MaxWarmUp
                      /\ \A k \in 1..Len(f) : f[k].sma = NaN

\* Every chronological frame of at most n rows with its warm-up at the head.
RECURSIVE PipelineFrames(_)
PipelineFrames(n) ==
    IF n = 0 THEN {<<>>}
    ELSE LET shorter == PipelineFrames(n - 1)
             longest == {g \in shorter : Len(g) = n - 1}
         IN  shorter \cup
             {Append(q[1], q[2]) :
                 q \in {q \in longest \X (WarmUpRows \cup IndicatorRows) :
                           Follows(q[1], q[2])}}

\* A frame built from a list of candles has the index labels 0, 1, 2, ...
Labelled(frame) == [t \in 1..Len(frame) |-> [label |-> t - 1] @@ frame[t]]

\* The rows dropna(subset=['sma', 'lower_band', 'buy_signal']) keeps.
HasIndicators(r) == r.sma # NaN /\ r.lower_band # NaN /\ r.buy_signal # NaN

\* df_signals.dropna(...): the rows kept keep their index labels.
DropNa(frame) == SelectSeq(frame, HasIndicators)

\* The columns of a row of df_signals that run_backtest reads.
RowOf(d) == [datetime |-> d.datetime, close |-> d.close, sma |-> d.sma,
             buy_signal |-> d.buy_signal]

InitPipeline ==
    /\ EngineInit
    /\ MetricsIdle
    /\ pl_pc = "signals"
    /\ df_signals = <<>>
    /\ sg_pc = "call"
    /\ sg_df \in {Labelled(f) : f \in PipelineFrames(MaxPipelineRows)}
    /\ sg_result = <<>>

DropNaRows ==
    /\ pl_pc = "signals"
    /\ sg_pc = "return"
    /\ pl_pc' = "backtest"
    /\ df_signals' = DropNa(sg_result)
    /\ UNCHANGED <<engineVars, signalVars, metricVars>>

\* run_backtest(df_signals): the next row of the frame.
ProcessFrameRow ==
    /\ pl_pc = "backtest"
    /\ pc = "loop"
    /\ i < Len(df_signals)
    /\ LoopBodyAt(RowOf(df_signals[i + 1]), df_signals[i + 1].label)
    /\ UNCHANGED <<commission, pc, backtest_results, signalVars, metricVars,
                   pipelineVars>>

\* The loop has read every row of the frame.
ReturnFrame ==
    /\ pl_pc = "backtest"
    /\ i = Len(df_signals)
    /\ Return

NextPipeline == GenerateSignals \/ DropNaRows \/ ProcessFrameRow \/ ReturnFrame

SpecPipeline == InitPipeline /\ [][NextPipeline]_vars

(* ----------------------- PerformanceAnalyzer -------------------------- *)

\* Quotients are kept exact, as a numerator over a positive denominator.
Rat(n, d) == [num |-> n, den |-> d]

Zero == Rat(0, 1)

RatEq(a, b) == a.num * b.den = b.num * a.den

RatLe(a, b) == a.num * b.den <= b.num * a.den

RatAdd(a, b) == Rat(a.num * b.den + b.num * a.den, a.den * b.den)

RatMul(a, b) == Rat(a.num * b.num, a.den * b.den)

\* A sharpe_ratio that is not 0: it needs a standard deviation and a square
\* root, which are not computed here.
NotComputed == [num |-> 0, den |-> 0]

\* Rows of trades_df, as far as calculate_metrics reads them.
TradeRows == [profit : {-2, 0, 3}, exit_reason : {"take_profit", "stop_loss"}]

RECURSIVE Ledgers(_)
Ledgers(n) ==
    IF n = 0 THEN {<<>>}
    ELSE LET shorter == Ledgers(n - 1)
         IN  shorter \cup {Append(f, r) : f \in {g \in shorter : Len(g) = n - 1},
                                          r \in TradeRows}

EquityValues == {50, 100, 150}

\* Equity traces: at least the starting entry, as run_backtest builds them.
RECURSIVE EquityTraces(_)
EquityTraces(n) ==
    IF n = 1 THEN {<<v>> : v \in EquityValues}
    ELSE LET shorter == EquityTraces(n - 1)
         IN  shorter \cup {Append(f, v) : f \in {g \in shorter : Len(g) = n - 1},
                                          v \in EquityValues}

StartingBalances == {100, 200}

RECURSIVE SumOf(_)
SumOf(trades) ==
    IF trades = <<>> THEN 0 ELSE trades[1].profit + SumOf(Tail(trades))

IsWinning(t) == t.profit > 0

\* Mutant: a trade of profit 0 is not a loss.
IsLosingStrict(t) == t.profit < 0

IsLosing(t) == t.profit <= 0

\* trades_df[trades_df['profit'] > 0] and trades_df[trades_df['profit'] <= 0]
WinningTrades(trades) == SelectSeq(trades, IsWinning)

LosingTrades(trades) == SelectSeq(trades, IsLosing)

Max2(a, b) == IF a >= b THEN a ELSE b

\* Mutant: the peak is the maximum of the whole trace.
RECURSIVE WholeMax(_, _)
WholeMax(history, k) ==
    IF Len(history) = 1 THEN history[1]
    ELSE Max2(history[Len(history)],
              WholeMax(SubSeq(history, 1, Len(history) - 1), k))

\* Series.cummax(), at index k.
RECURSIVE CumMax(_, _)
CumMax(history, k) ==
    IF k = 1 THEN history[1]
    ELSE Max2(CumMax(history, k - 1), history[k])

\* drawdown = (portfolio_series - running_max) / running_max, at index k.
Drawdown(history, k) ==
    Rat(history[k] - CumMax(history, k), CumMax(history, k))

\* Series.min() of the first k drawdowns.
RECURSIVE MinDrawdown(_, _)
MinDrawdown(history, k) ==
    IF k = 1 THEN Drawdown(history, 1)
    ELSE LET rest == MinDrawdown(history, k - 1)
             here == Drawdown(history, k)
         IN  IF RatLe(rest, here) THEN rest ELSE here

\* value_counts().to_dict()
ValueCounts(trades) ==
    [reason \in {trades[k].exit_reason : k \in 1..Len(trades)} |->
        Cardinality({k \in 1..Len(trades) : trades[k].exit_reason = reason})]

\* Mutant: the fallback divisor 1 shows as a profit factor of 1.
EmptyMetricsUnitFactor ==
    [total_trades |-> 0, winning_trades |-> 0, losing_trades |-> 0,
     win_rate |-> Zero, total_profit |-> 0, total_return |-> Zero,
     avg_win |-> Zero, avg_loss |-> Zero, profit_factor |-> Rat(1, 1),
     expectancy |-> Zero, max_drawdown |-> Zero, sharpe_ratio |-> Zero,
     exit_reasons |-> <<>>, final_balance |-> 0, initial_balance |-> 0]

\* _empty_metrics(); the empty dict is the function of empty domain.
EmptyMetrics ==
    [total_trades |-> 0, winning_trades |-> 0, losing_trades |-> 0,
     win_rate |-> Zero, total_profit |-> 0, total_return |-> Zero,
     avg_win |-> Zero, avg_loss |-> Zero, profit_factor |-> Zero,
     expectancy |-> Zero, max_drawdown |-> Zero, sharpe_ratio |-> Zero,
     exit_reasons |-> <<>>, final_balance |-> 0, initial_balance |-> 0]

calculate_metrics(trades_df, history, balance) ==
    IF Len(trades_df) = 0 THEN EmptyMetrics
    ELSE
    LET total_trades   == Len(trades_df)
        winning_trades == WinningTrades(trades_df)
        losing_trades  == LosingTrades(trades_df)
        win_rate       == Rat(Len(winning_trades), total_trades)
        total_profit   == SumOf(trades_df)
        avg_win  == IF Len(winning_trades) > 0
                    THEN Rat(SumOf(winning_trades), Len(winning_trades)) ELSE Zero
        avg_loss == IF Len(losing_trades) > 0
                    THEN Rat(SumOf(losing_trades), Len(losing_trades)) ELSE Zero
        gross_profit == IF Len(winning_trades) > 0 THEN SumOf(winning_trades) ELSE 0
        gross_loss   == IF Len(losing_trades) > 0
                        THEN Abs(SumOf(losing_trades)) ELSE 1
        profit_factor == IF gross_loss # 0 THEN Rat(gross_profit, gross_loss)
                         ELSE Zero
        expectancy == RatAdd(RatMul(win_rate, avg_win),
                             RatMul(Rat(total_trades - Len(winning_trades),
                                        total_trades),
                                    avg_loss))
        all_equal == \A k \in 1..total_trades :
                        trades_df[k].profit = trades_df[1].profit
        sharpe_ratio == IF total_trades > 1 /\ ~all_equal THEN NotComputed
                        ELSE Zero
    IN  [total_trades   |-> total_trades,
         winning_trades |-> Len(winning_trades),
         losing_trades  |-> Len(losing_trades),
         win_rate       |-> win_rate,
         total_profit   |-> total_profit,
         total_return   |-> Rat(total_profit, balance),
         avg_win        |-> avg_win,
         avg_loss       |-> avg_loss,
         profit_factor  |-> profit_factor,
         expectancy     |-> expectancy,
         max_drawdown   |-> MinDrawdown(history, Len(history)),
         sharpe_ratio   |-> sharpe_ratio,
         exit_reasons   |-> ValueCounts(trades_df),
         final_balance  |-> history[Len(history)],
         initial_balance |-> balance]

InitMetrics ==
    /\ EngineInit
    /\ SignalsIdle
    /\ PipelineIdle
    /\ pa_pc = "call"
    /\ pa_args \in [trades_df : Ledgers(MaxTrades),
                    portfolio_history : EquityTraces(MaxHistory),
                    initial_balance : StartingBalances]
    /\ metrics = NoMetrics

CalculateMetrics ==
    /\ pa_pc = "call"
    /\ pa_pc' = "return"
    /\ metrics' = calculate_metrics(pa_args.trades_df, pa_args.portfolio_history,
                                    pa_args.initial_balance)
    /\ UNCHANGED <<pa_args, engineVars, signalVars, pipelineVars>>

NextMetrics == CalculateMetrics

SpecMetrics == InitMetrics /\ [][NextMetrics]_vars

(* ------------------------------ claims -------------------------------- *)

LastTrade == trades_list[Len(trades_list)]

\* Trades entered on the day d: the ledger's, plus the position still open.
EntriesOn(d) ==
    Cardinality({k \in 1..Len(trades_list) : DateOf(trades_list[k].entry_time) = d})
    + (IF current_position = 1 /\ DateOf(entry_time) = d THEN 1 ELSE 0)

RECURSIVE SumProfits(_)
SumProfits(trades) ==
    IF trades = <<>> THEN 0
    ELSE trades[1].profit + SumProfits(Tail(trades))

\* C1: on a stream with strictly increasing timestamps the position is always
\* flat (0) or one long (1), and in the ledger every trade's entry is before its
\* exit and every trade's exit is before the next trade's entry.
C1_AtMostOneOpenPosition ==
    chronological =>
        /\ current_position \in {0, 1}
        /\ \A k \in 1..Len(trades_list) :
               trades_list[k].entry_time < trades_list[k].exit_time
        /\ \A k \in 1..(Len(trades_list) - 1) :
               trades_list[k].exit_time < trades_list[k + 1].entry_time

\* Two trades are in the ledger of a chronological stream.
C1_Witness == chronological /\ Len(trades_list) >= 2

\* C2: on a stream with strictly increasing timestamps, at most one trade (the
\* ledger's and the one still open) has its entry on any calendar day.
C2_DailyEntryCap ==
    chronological => \A d \in CandleDays : EntriesOn(d) <= 1

\* The day's trade was closed early and a later row of the same day, before
\* 14:30, carries a buy signal while the engine is flat: it opened nothing.
C2_Witness ==
    /\ chronological
    /\ Len(trades_list) >= 1
    /\ DateOf(LastTrade.entry_time) = DateOf(row.datetime)
    /\ LastTrade.exit_time < row.datetime
    /\ row.buy_signal = 1
    /\ TimeOf(row.datetime) < 870
    /\ current_position = 0

\* C3: on a row processed with a position open, take-profit wins over
\* stop-loss and over the session close (exit at the row's close), and
\* stop-loss wins over the session close.
C3_ExitPriority ==
    [][(pc = "loop" /\ i' = i + 1 /\ current_position = 1) =>
        LET close == row'.close
            tp == close >= entry_sma
            sl == close - entry_price <= -stop_loss_points
            mc == TimeOf(row'.datetime) >= 885
            closed == Len(trades_list') = Len(trades_list) + 1
            last == trades_list'[Len(trades_list')]
        IN  /\ (tp /\ (sl \/ mc)) =>
                  /\ closed
                  /\ last.exit_reason = "take_profit"
                  /\ last.exit_price = close
            /\ (~tp /\ sl /\ mc) =>
                  /\ closed
                  /\ last.exit_reason = "stop_loss"]_vars

\* The last row closed a trade by take-profit while its close was also at or
\* below the stop.
C3_Witness ==
    /\ Len(trades_list) >= 1
    /\ LastTrade.exit_time = row.datetime
    /\ LastTrade.exit_reason = "take_profit"
    /\ LastTrade.exit_price = row.close
    /\ row.close >= LastTrade.sma_at_entry
    /\ row.close - LastTrade.entry_price <= -stop_loss_points

\* C4: the equity trace starts at the starting balance and has one entry more
\* than rows processed, after every row and in the returned result.
C4_EquityTraceLength ==
    /\ Len(portfolio_history) = i + 1
    /\ portfolio_history[1] = initial_balance * CommissionDen
    /\ pc = "return" =>
          /\ Len(backtest_results.portfolio_history) = i + 1
          /\ backtest_results.portfolio_history[1] = initial_balance * CommissionDen

\* A run of three rows or more returned with one trade closed: some rows
\* closed a trade and some did not.
C4_Witness ==
    /\ pc = "return"
    /\ i >= 3
    /\ Len(backtest_results.trades) = 1
    /\ Len(backtest_results.portfolio_history) = i + 1

\* C5: on a stream with strictly increasing timestamps no position is held
\* over a change of calendar day: every trade exits on the day it entered and
\* an open position was entered on the current day.
C5_NoOvernightPosition ==
    chronological =>
        /\ \A k \in 1..Len(trades_list) :
               DateOf(trades_list[k].exit_time) = DateOf(trades_list[k].entry_time)
        /\ current_position = 1 => DateOf(entry_time) = current_date

\* C6: on a row processed with a position open, when the take-profit test
\* fails and close - entry_price <= -stop_loss_distance, the trade is closed
\* on that row with reason stop_loss at entry_price - stop_loss_distance, so
\* its gross profit is -stop_loss_distance whatever the close.
C6_StopLossFill ==
    [][(pc = "loop" /\ i' = i + 1 /\ current_position = 1
          /\ ~(row'.close >= entry_sma)
          /\ row'.close - entry_price <= -stop_loss_points) =>
        LET last == trades_list'[Len(trades_list')]
        IN  /\ Len(trades_list') = Len(trades_list) + 1
            /\ current_position' = 0
            /\ last.exit_time = row'.datetime
            /\ last.exit_reason = "stop_loss"
            /\ last.entry_price = entry_price
            /\ last.exit_price = entry_price - stop_loss_points
            /\ last.exit_price - last.entry_price = -stop_loss_points]_vars

\* The last row closed a trade by stop-loss and its close is below the fill.
C6_Witness ==
    /\ Len(trades_list) >= 1
    /\ LastTrade.exit_time = row.datetime
    /\ LastTrade.exit_reason = "stop_loss"
    /\ row.close < LastTrade.exit_price

\* C7: on a row processed with a position open and neither the take-profit
\* nor the stop-loss condition met, the trade is closed at the row's close
\* with reason market_close when the time of day is 14:45 or later, and
\* otherwise the position stays open and the ledger is unchanged.
C7_SessionCloseExit ==
    [][(pc = "loop" /\ i' = i + 1 /\ current_position = 1
          /\ ~(row'.close >= entry_sma)
          /\ ~(row'.close - entry_price <= -stop_loss_points)) =>
        IF TimeOf(row'.datetime) >= 885
        THEN LET last == trades_list'[Len(trades_list')]
             IN  /\ Len(trades_list') = Len(trades_list) + 1
                 /\ current_position' = 0
                 /\ last.exit_time = row'.datetime
                 /\ last.exit_reason = "market_close"
                 /\ last.exit_price = row'.close
        ELSE /\ trades_list' = trades_list
             /\ current_position' = 1]_vars

\* The last row, at 14:45, closed a trade by market_close at its close.
C7_Witness ==
    /\ Len(trades_list) >= 1
    /\ LastTrade.exit_time = row.datetime
    /\ LastTrade.exit_reason = "market_close"
    /\ LastTrade.exit_price = row.close
    /\ TimeOf(row.datetime) = 885

\* The accounting of one trade record, in units of 1/CommissionDen:
\* (exit - entry) * 1 - |exit - entry| * commission_rate.
RecordNet(t) ==
    LET gross == (t.exit_price - t.entry_price) * 1
    IN  gross * CommissionDen - (IF gross < 0 THEN -gross ELSE gross) * CommissionNum

BalanceAccounted ==
    /\ \A k \in 1..Len(trades_list) : trades_list[k].profit = RecordNet(trades_list[k])
    /\ current_balance = initial_balance * CommissionDen + SumProfits(trades_list)
    /\ portfolio_history[Len(portfolio_history)] = current_balance
    /\ pc = "return" =>
          backtest_results.final_balance
              = initial_balance * CommissionDen + SumProfits(backtest_results.trades)

\* C8: after every row the running balance, which is the last entry of the
\* equity trace, is the starting balance plus the net profits of the trade
\* records, each (exit - entry) - |exit - entry| * commission; the trace
\* changes only on a row that closes a trade; final_balance is the starting
\* balance plus the ledger's profit sum.
C8_ExitAccounting ==
    /\ []BalanceAccounted
    /\ [][(i' = i + 1 /\ current_balance' # current_balance) =>
              Len(trades_list') = Len(trades_list) + 1]_vars

\* Two trades are closed, one at a gain and one at a loss.
C8_Witness ==
    /\ Len(trades_list) >= 2
    /\ \E k \in 1..Len(trades_list) : trades_list[k].profit > 0
    /\ \E k \in 1..Len(trades_list) : trades_list[k].profit < 0

\* C9: run_backtest on a stream of zero rows ends with an error and returns
\* no result.
C9_EmptyInputIsError ==
    (i = 0 /\ pc # "loop") => (pc = "raise" /\ backtest_results = NoResult)

\* C10: run_backtest on a stream whose timestamps are not strictly increasing
\* ends with an error and returns no ledger, and no calendar day gets a
\* second entry.
C10_UnorderedInputIsError ==
    /\ (~chronological /\ pc # "loop") =>
           (pc = "raise" /\ backtest_results = NoResult)
    /\ \A d \in CandleDays : EntriesOn(d) <= 1

\* The daily entry counter as the entry test of the next row sees it: reset
\* when the row's calendar day differs from the day seen last.
CounterSeenBy(r) ==
    IF current_date = 0 \/ DateOf(r.datetime) # current_date THEN 0
    ELSE daily_positions

\* C17: on a row processed while flat, a position is opened if and only if
\* buy_signal is 1, the daily entry counter is below 1 and the time of day is
\* strictly before 14:30; it records the row's close, timestamp and moving
\* average, the counter is incremented, and no exit rule is evaluated on that
\* row: the position is open after it and the ledger is unchanged.
C17_EntryRule ==
    [][(pc = "loop" /\ i' = i + 1 /\ current_position = 0) =>
        LET r == row'
            qualifies == /\ r.buy_signal = 1
                         /\ CounterSeenBy(r) < 1
                         /\ TimeOf(r.datetime) < 870
        IN  /\ trades_list' = trades_list
            /\ (current_position' = 1) <=> qualifies
            /\ qualifies =>
                  /\ entry_price' = r.close
                  /\ entry_time' = r.datetime
                  /\ entry_sma' = r.sma
                  /\ daily_positions' = CounterSeenBy(r) + 1
            /\ ~qualifies =>
                  /\ current_position' = 0
                  /\ daily_positions' = CounterSeenBy(r)]_vars

\* The last row opened a position although its close is at its moving average
\* (the take-profit condition): the position is open after the row.
C17_Witness ==
    /\ current_position = 1
    /\ entry_time = row.datetime
    /\ row.close >= row.sma
    /\ entry_price = row.close

\* C18: while a position is held the take-profit test compares the row's
\* close with the moving average captured at entry, whatever the row's own
\* moving average; the captured value is not changed by a row that does not
\* open a position, and a trade record carries it as sma_at_entry.
C18_FixedTakeProfitTarget ==
    [][(pc = "loop" /\ i' = i + 1 /\ current_position = 1) =>
        LET tp == row'.close >= entry_sma
            closed == Len(trades_list') = Len(trades_list) + 1
            last == trades_list'[Len(trades_list')]
        IN  /\ entry_sma' = entry_sma
            /\ tp <=> (closed /\ last.exit_reason = "take_profit")
            /\ closed => last.sma_at_entry = entry_sma]_vars

\* The last row closed a trade by take-profit with its close below its own
\* moving average: the target was the lower value captured at entry.
C18_Witness ==
    /\ Len(trades_list) >= 1
    /\ LastTrade.exit_time = row.datetime
    /\ LastTrade.exit_reason = "take_profit"
    /\ row.close < row.sma
    /\ row.close >= LastTrade.sma_at_entry

\* C19: on a row processed while a position opened on an earlier row is held,
\* if the take-profit, the stop-loss or the session-close condition is met
\* the state after the row is flat and exactly one record was appended;
\* otherwise the ledger, the position, the entry price, the entry time and
\* the target are unchanged.
C19_PositionDestroyedOnExit ==
    [][(pc = "loop" /\ i' = i + 1 /\ current_position = 1) =>
        IF \/ row'.close >= entry_sma
           \/ row'.close - entry_price <= -stop_loss_points
           \/ TimeOf(row'.datetime) >= 885
        THEN /\ current_position' = 0
             /\ Len(trades_list') = Len(trades_list) + 1
             /\ SubSeq(trades_list', 1, Len(trades_list)) = trades_list
             /\ trades_list'[Len(trades_list')].exit_time = row'.datetime
        ELSE /\ trades_list' = trades_list
             /\ current_position' = 1
             /\ entry_price' = entry_price
             /\ entry_time' = entry_time
             /\ entry_sma' = entry_sma]_vars

\* The position opened by the first row (the earliest timestamp there is) was
\* held over the second row, which met no exit condition, and closed by the
\* third.
C19_Witness ==
    /\ chronological
    /\ i = 3
    /\ Len(trades_list) = 1
    /\ current_position = 0
    /\ LastTrade.entry_time = MakeDatetime(1, 555)
    /\ LastTrade.exit_time = row.datetime

\* C20: the ledger's trade_id values are 1, 2, ..., n in ledger order, and a
\* step never changes a record already in the ledger.
C20_TradeIdentifiers ==
    /\ [](\A k \in 1..Len(trades_list) : trades_list[k].trade_id = k)
    /\ [][/\ Len(trades_list') >= Len(trades_list)
          /\ SubSeq(trades_list', 1, Len(trades_list)) = trades_list]_vars

\* Two records are in the ledger, numbered 1 and 2.
C20_Witness ==
    /\ Len(trades_list) = 2
    /\ trades_list[1].trade_id = 1
    /\ trades_list[2].trade_id = 2

\* C11: generate_signals returns one row per input row, with the input's
\* values, and buy_signal[t] is 1 exactly when t is not the first row, the
\* previous and the current lower band are defined, close[t-1] >
\* lower_band[t-1], close[t] <= lower_band[t] and the time of day is from
\* 09:15 to 14:30, both inclusive; the input frame is not changed.
C11_SignalRule ==
    /\ [](sg_pc = "return" =>
            /\ Len(sg_result) = Len(sg_df)
            /\ \A t \in 1..Len(sg_df) :
                  /\ sg_result[t].datetime = sg_df[t].datetime
                  /\ sg_result[t].close = sg_df[t].close
                  /\ sg_result[t].lower_band = sg_df[t].lower_band
                  /\ sg_result[t].buy_signal \in {0, 1}
                  /\ (sg_result[t].buy_signal = 1) <=>
                        /\ t >= 2
                        /\ sg_df[t - 1].lower_band # NaN
                        /\ sg_df[t].lower_band # NaN
                        /\ sg_df[t - 1].close > sg_df[t - 1].lower_band
                        /\ sg_df[t].close <= sg_df[t].lower_band
                        /\ TimeOf(sg_df[t].datetime) >= 555
                        /\ TimeOf(sg_df[t].datetime) <= 870)
    /\ [][sg_df' = sg_df]_vars

\* A signal on a row at 14:30 whose close equals its lower band, after a row
\* above its band, and none on the next row, whose band is undefined.
C11_Witness ==
    /\ sg_pc = "return"
    /\ Len(sg_df) = 3
    /\ sg_df[1].lower_band # NaN
    /\ sg_df[1].close > sg_df[1].lower_band
    /\ sg_df[2].close = sg_df[2].lower_band
    /\ TimeOf(sg_df[2].datetime) = 870
    /\ sg_result[2].buy_signal = 1
    /\ sg_df[3].lower_band = NaN
    /\ sg_result[3].buy_signal = 0

\* The arguments of the call of calculate_metrics.
Ledger == pa_args.trades_df

Equity == pa_args.portfolio_history

\* C12: given zero trades, calculate_metrics returns a record whose counts,
\* rates, averages, ratios, profit, drawdown and sharpe_ratio are all 0 and
\* whose exit_reasons is empty, whatever the equity trace and the starting
\* balance.
C12_EmptyLedgerMetrics ==
    (pa_pc = "return" /\ Len(Ledger) = 0) =>
        /\ metrics.total_trades = 0
        /\ metrics.winning_trades = 0
        /\ metrics.losing_trades = 0
        /\ metrics.win_rate.num = 0
        /\ metrics.total_profit = 0
        /\ metrics.total_return.num = 0
        /\ metrics.avg_win.num = 0
        /\ metrics.avg_loss.num = 0
        /\ metrics.profit_factor.num = 0
        /\ metrics.expectancy.num = 0
        /\ metrics.max_drawdown.num = 0
        /\ metrics.sharpe_ratio.num = 0
        /\ metrics.sharpe_ratio.den # 0
        /\ DOMAIN metrics.exit_reasons = {}

\* The call returned for an empty ledger with an equity trace that falls and
\* a starting balance of 200.
C12_Witness ==
    /\ pa_pc = "return"
    /\ Len(Ledger) = 0
    /\ Len(Equity) = 3
    /\ Equity[3] < Equity[1]
    /\ pa_args.initial_balance = 200
    /\ metrics.total_trades = 0

Winners == {k \in 1..Len(Ledger) : Ledger[k].profit > 0}

Losers == {k \in 1..Len(Ledger) : Ledger[k].profit <= 0}

RECURSIVE ProfitOver(_)
ProfitOver(indices) ==
    IF indices = {} THEN 0
    ELSE LET k == CHOOSE j \in indices : TRUE
         IN  Ledger[k].profit + ProfitOver(indices \ {k})

\* C13: for a non-empty ledger a trade is winning iff its profit is > 0 and
\* losing iff its profit is <= 0, winning_trades + losing_trades =
\* total_trades = the ledger's length, win_rate = winning_trades /
\* total_trades lies in [0, 1], and total_profit is the sum of the profits.
C13_WinLossPartition ==
    (pa_pc = "return" /\ Len(Ledger) > 0) =>
        /\ metrics.total_trades = Len(Ledger)
        /\ metrics.winning_trades = Cardinality(Winners)
        /\ metrics.losing_trades = Cardinality(Losers)
        /\ metrics.winning_trades + metrics.losing_trades = metrics.total_trades
        /\ metrics.win_rate.den > 0
        /\ metrics.win_rate.num * metrics.total_trades
              = metrics.winning_trades * metrics.win_rate.den
        /\ 0 <= metrics.win_rate.num
        /\ metrics.win_rate.num <= metrics.win_rate.den
        /\ metrics.total_profit = ProfitOver(1..Len(Ledger))

\* The ledger holds a gain, a loss and a trade of profit 0, counted a loss.
C13_Witness ==
    /\ pa_pc = "return"
    /\ \E k \in 1..Len(Ledger) : Ledger[k].profit = 0
    /\ \E k \in 1..Len(Ledger) : Ledger[k].profit > 0
    /\ \E k \in 1..Len(Ledger) : Ledger[k].profit < 0
    /\ metrics.losing_trades = 2
    /\ metrics.winning_trades = 1

\* gross_profit and gross_loss as the claim defines them.
GrossProfit == ProfitOver(Winners)

GrossLoss == LET l == ProfitOver(Losers) IN IF l < 0 THEN -l ELSE l

\* C14: for a non-empty ledger whose gross_loss is zero, with no losing trade
\* or with losing trades all of profit 0, profit_factor equals gross_profit;
\* with a non-zero gross_loss, profit_factor = gross_profit / gross_loss.
C14_ProfitFactorSubstitution ==
    (pa_pc = "return" /\ Len(Ledger) > 0) =>
        /\ metrics.profit_factor.den > 0
        /\ IF GrossLoss = 0
           THEN metrics.profit_factor.num = GrossProfit * metrics.profit_factor.den
           ELSE metrics.profit_factor.num * GrossLoss
                    = GrossProfit * metrics.profit_factor.den

\* The largest equity value at indices <= k.
Peak(k) == CHOOSE p \in {Equity[j] : j \in 1..k} : \A j \in 1..k : Equity[j] <= p

\* C15: for a non-empty ledger and an equity trace that starts positive,
\* max_drawdown is the minimum over i of (equity[i] - peak[i]) / peak[i]; it
\* is <= 0, and 0 exactly when the equity trace is non-decreasing.
C15_MaxDrawdown ==
    (pa_pc = "return" /\ Len(Ledger) > 0 /\ Equity[1] > 0) =>
        LET md == metrics.max_drawdown
            n  == Len(Equity)
        IN  /\ md.den > 0
            /\ \A k \in 1..n :
                   md.num * Peak(k) <= (Equity[k] - Peak(k)) * md.den
            /\ \E k \in 1..n :
                   md.num * Peak(k) = (Equity[k] - Peak(k)) * md.den
            /\ md.num <= 0
            /\ (md.num = 0) <=> (\A k \in 1..(n - 1) : Equity[k] <= Equity[k + 1])

\* The equity trace rises to a peak and falls below its start: the drawdown
\* is measured from the peak.
C15_Witness ==
    /\ pa_pc = "return"
    /\ Len(Ledger) > 0
    /\ Equity = <<100, 150, 50>>
    /\ metrics.max_drawdown.num * 3 = -2 * metrics.max_drawdown.den

\* C22: in the output of generate_signals a row whose previous row has its
\* close at or below its (defined) lower band carries no buy signal, so only
\* the first row of a run at or below the band can carry one, and no two
\* consecutive rows both carry buy_signal = 1.
C22_OneSignalPerRun ==
    sg_pc = "return" =>
        /\ \A t \in 2..Len(sg_result) :
               (/\ sg_df[t - 1].lower_band # NaN
                /\ sg_df[t - 1].close <= sg_df[t - 1].lower_band) =>
                   sg_result[t].buy_signal = 0
        /\ \A t \in 1..(Len(sg_result) - 1) :
               ~(sg_result[t].buy_signal = 1 /\ sg_result[t + 1].buy_signal = 1)

\* A run of two rows at or below the band inside the trading window: the
\* first carries the signal, the second does not.
C22_Witness ==
    /\ sg_pc = "return"
    /\ Len(sg_df) = 3
    /\ sg_result[2].buy_signal = 1
    /\ sg_df[3].lower_band # NaN
    /\ sg_df[3].close <= sg_df[3].lower_band
    /\ TimeOf(sg_df[3].datetime) >= 555
    /\ TimeOf(sg_df[3].datetime) <= 870
    /\ sg_result[3].buy_signal = 0

\* No trade of the ledger and no open position was entered on the day d.
NoEntryOn(d) ==
    /\ \A k \in 1..Len(trades_list) : DateOf(trades_list[k].entry_time) # d
    /\ ~(current_position = 1 /\ DateOf(entry_time) = d)

\* C23: on a stream with strictly increasing timestamps, a row of a new
\* calendar day processed with a position open leaves the daily counter at
\* zero; and a row processed while flat, with buy_signal = 1 and a time of day
\* before 14:30, on a day on which no position was entered, opens a position,
\* also when a position carried over from an earlier day was closed on that
\* day.
C23_DayRollover ==
    [][(pc = "loop" /\ i' = i + 1 /\ chronological') =>
        LET d == DateOf(row'.datetime)
        IN  /\ (current_position = 1 /\ d # current_date) => daily_positions' = 0
            /\ (/\ current_position = 0
                /\ NoEntryOn(d)
                /\ row'.buy_signal = 1
                /\ TimeOf(row'.datetime) < 870) =>
                   /\ current_position' = 1
                   /\ entry_time' = row'.datetime
                   /\ daily_positions' = 1]_vars

\* A position entered on day 1 was closed on day 2, and the last row, later on
\* day 2, opened a new one.
C23_Witness ==
    /\ chronological
    /\ Len(trades_list) >= 1
    /\ DateOf(LastTrade.entry_time) = 1
    /\ DateOf(LastTrade.exit_time) = 2
    /\ current_position = 1
    /\ entry_time = row.datetime
    /\ DateOf(row.datetime) = 2
    /\ daily_positions = 1

\* C25: when run_backtest returns, the ledger has one record per position
\* opened (trade_id counts the entries) and no position is left open.
C25_EveryEntryAccounted ==
    pc = "return" =>
        /\ Len(backtest_results.trades) = trade_id
        /\ current_position = 0

\* C26: after a row whose time of day is 14:45 or later no position is open.
C26_FlatAfterSessionClose ==
    (i > 0 /\ TimeOf(row.datetime) >= 885) => current_position = 0

\* The last row, at 14:45, carries a buy signal on a day without an entry and
\* the engine, flat before it, is flat after it.
C26_Witness ==
    /\ i > 0
    /\ TimeOf(row.datetime) = 885
    /\ row.buy_signal = 1
    /\ NoEntryOn(DateOf(row.datetime))
    /\ current_position = 0
    /\ ~(Len(trades_list) >= 1 /\ LastTrade.exit_time = row.datetime)

\* C27: with a positive stop-loss distance, every trade record whose entry
\* price is at or below its moving average at entry has a gross profit of at
\* least -stop_loss_distance: at least 0 for take_profit, exactly
\* -stop_loss_distance for stop_loss, and for market_close strictly above
\* -stop_loss_distance and strictly below target - entry price.
C27_BoundedLoss ==
    stop_loss_points > 0 =>
        \A k \in 1..Len(trades_list) :
            LET t == trades_list[k]
                gross == t.exit_price - t.entry_price
            IN  t.entry_price <= t.sma_at_entry =>
                   /\ gross >= -stop_loss_points
                   /\ t.exit_reason \in {"take_profit", "stop_loss", "market_close"}
                   /\ t.exit_reason = "take_profit" => gross >= 0
                   /\ t.exit_reason = "stop_loss" => gross = -stop_loss_points
                   /\ t.exit_reason = "market_close" =>
                          /\ gross > -stop_loss_points
                          /\ gross < t.sma_at_entry - t.entry_price

\* The ledger holds a market_close trade at a loss of one point, entered
\* below its moving average.
C27_Witness ==
    /\ Len(trades_list) >= 1
    /\ LastTrade.exit_reason = "market_close"
    /\ LastTrade.entry_price < LastTrade.sma_at_entry
    /\ LastTrade.exit_price - LastTrade.entry_price = -1

\* C21: a row whose moving average is undefined never opens a position: no
\* open position and no trade record has an undefined take-profit target.
C21_UndefinedIndicatorRejected ==
    /\ current_position = 1 => entry_sma # NaN
    /\ \A k \in 1..Len(trades_list) : trades_list[k].sma_at_entry # NaN

\* C24: for every commission rate in [0, 1) and every trade record, the net
\* profit is at most the gross profit and has its sign (positive, zero or
\* negative), and a row that closes a trade with gross profit <= 0 does not
\* increase the balance.  Amounts are in units of 1/CommissionDen.
C24_CommissionNeverHelps ==
    /\ [](commission \in 0..(CommissionDen - 1) =>
            \A k \in 1..Len(trades_list) :
                LET t     == trades_list[k]
                    gross == (t.exit_price - t.entry_price) * CommissionDen
                    net   == t.profit
                IN  /\ net <= gross
                    /\ gross > 0 => net > 0
                    /\ gross = 0 => net = 0
                    /\ gross < 0 => net < 0)
    /\ [][(/\ commission \in 0..(CommissionDen - 1)
           /\ Len(trades_list') = Len(trades_list) + 1
           /\ LET t == trades_list'[Len(trades_list')]
              IN  t.exit_price - t.entry_price <= 0) =>
              current_balance' <= current_balance]_vars

\* At the largest rate a winning trade is closed: its net profit is positive
\* and below its gross profit.
C24_Witness ==
    /\ commission = CommissionDen - 1
    /\ Len(trades_list) >= 1
    /\ LastTrade.exit_price > LastTrade.entry_price
    /\ LastTrade.profit > 0
    /\ LastTrade.profit < (LastTrade.exit_price - LastTrade.entry_price) * CommissionDen
    /\ current_balance > initial_balance * CommissionDen

\* C28: in the pipeline with its default settings, a row on which
\* generate_signals emitted buy_signal = 1, processed while the engine is flat
\* and has made no entry that day, opens a position.
C28_SignalWindowFitsEntryWindow ==
    [][(/\ pl_pc = "backtest"
        /\ i' = i + 1
        /\ current_position = 0
        /\ NoEntryOn(DateOf(row'.datetime))
        /\ row'.buy_signal = 1) =>
           current_position' = 1]_vars

\* The candle of the given timestamp lies in a trade, from its entry candle
\* through its exit candle, or in the position still open.
InTrade(dt) ==
    \/ \E k \in 1..Len(trades_list) :
           trades_list[k].entry_time <= dt /\ dt <= trades_list[k].exit_time
    \/ current_position = 1 /\ entry_time <= dt

IsEntryCandle(dt) ==
    \/ \E k \in 1..Len(trades_list) : trades_list[k].entry_time = dt
    \/ current_position = 1 /\ entry_time = dt

IsExitCandle(dt) == \E k \in 1..Len(trades_list) : trades_list[k].exit_time = dt

\* The annotated frame b has one row per row of the input frame, in its
\* order, each with the annotations of its own candle.
Aligned(b, input) ==
    /\ Len(b) = Len(input)
    /\ \A k \in 1..Len(b) :
           LET dt == input[k].datetime
           IN  /\ b[k].label = input[k].label
               /\ b[k].position = (IF InTrade(dt) THEN 1 ELSE 0)
               /\ b[k].entry_price # NaN => IsEntryCandle(dt)
               /\ IsEntryCandle(dt) => b[k].entry_price = input[k].close
               /\ b[k].exit_price # NaN => IsExitCandle(dt)
               /\ b[k].profit # 0 => IsExitCandle(dt)
               /\ b[k].current_balance = backtest_results.portfolio_history[k + 1]

\* C29: backtest_df has one row per input candle, in input order, each with
\* its own candle's position, entry_price, exit_price, profit and
\* current_balance, whatever the index labels of the input frame.
C29_AnnotatedStreamAlignment ==
    (pl_pc = "backtest" /\ pc = "return") =>
        Aligned(backtest_results.backtest_df, df_signals)

====
